---- MODULE Spec2Model ----
(***************************************************************************)
(* Model of the page-turner firmware: the configurable sketch              *)
(* page-turner.ino and the earlier fixed-configuration sketch              *)
(* (unnamed/part_000).  One device runs one of the two sketches; which one *)
(* is flashed is fixed in the initial state.                               *)
(*                                                                         *)
(* Text is modelled as sequences of byte values (ASCII codes), char arrays *)
(* as sequences of their full capacity, and 32-bit integers as their       *)
(* two's-complement value in -2^31 .. 2^31-1 (an unsigned long is held as  *)
(* the signed value with the same bit pattern and compared limb-wise).     *)
(***************************************************************************)
EXTENDS Integers, Sequences, FiniteSets, TLC

(***************************************************************************)
(* 32-bit arithmetic of the target (int and unsigned long are 32 bits).    *)
(***************************************************************************)
\* 2^16
Limb == 256 * 256

HalfLimb == 128 * 256

INT_MAX == 32767 * Limb + 65535

INT_MIN == 0 - INT_MAX - 1

\* low and high 16-bit limbs of the bit pattern of a 32-bit value
Lo(a) == a % Limb

Hi(a) == (a \div Limb) % Limb

\* the 32-bit value (held as signed) with limbs h, l
FromLimbs(h, l) == (IF h >= HalfLimb THEN h - Limb ELSE h) * Limb + l

\* a - b modulo 2^32
Sub32(a, b) ==
  LET l == Lo(a) - Lo(b)
      borrow == IF l < 0 THEN 1 ELSE 0
  IN  FromLimbs((Hi(a) - Hi(b) - borrow) % Limb, l % Limb)

\* a * k modulo 2^32, for 0 <= k < 2^15
Mul32(a, k) ==
  LET low == Lo(a) * k
  IN  FromLimbs((Hi(a) * k + (low \div Limb)) % Limb, low % Limb)

\* unsigned a >= b on 32-bit patterns
UGe(a, b) == Hi(a) > Hi(b) \/ (Hi(a) = Hi(b) /\ Lo(a) >= Lo(b))

UGt(a, b) == Hi(a) > Hi(b) \/ (Hi(a) = Hi(b) /\ Lo(a) > Lo(b))

\* unsigned a / k (k > 0 small): long division over the two limbs
UDiv(a, k) ==
  LET h == Hi(a)
      r == (h % k) * Limb + Lo(a)
  IN  (h \div k) * Limb + (r \div k)

(***************************************************************************)
(* Text helpers.                                                           *)
(***************************************************************************)
\* n copies of byte b
Fill(b, n) == [i \in 1..n |-> b]

\* strncpy(dst, src, n): the first n bytes of src, NUL-padded to n bytes;
\* no terminator is written when src has n or more characters
strncpy(src, n) == [i \in 1..n |-> IF i <= Len(src) THEN src[i] ELSE 0]

\* the C string starting at mem[1]: the bytes before the first NUL
\* (or all of mem when it holds none)
RECURSIVE FirstNul(_, _)
FirstNul(mem, i) ==
  IF i > Len(mem) \/ mem[i] = 0 THEN i ELSE FirstNul(mem, i + 1)

CStr(mem) == SubSeq(mem, 1, FirstNul(mem, 1) - 1)

IsDigit(c) == c >= 48 /\ c <= 57

\* isspace of the C locale
IsSpace(c) == c = 32 \/ (c >= 9 /\ c <= 13)

RECURSIVE SkipSpace(_)
SkipSpace(s) ==
  IF s # <<>> /\ IsSpace(Head(s)) THEN SkipSpace(Tail(s)) ELSE s

\* magnitude of the leading digit run, saturating at INT_MAX + 1 (held as
\* <<value, saturated>>)
RECURSIVE DigitRun(_, _, _)
DigitRun(s, acc, sat) ==
  IF s = <<>> \/ ~IsDigit(Head(s)) THEN <<acc, sat>>
  ELSE LET d == Head(s) - 48
       IN  IF sat \/ acc > (INT_MAX - d) \div 10
           THEN DigitRun(Tail(s), INT_MAX, TRUE)
           ELSE DigitRun(Tail(s), acc * 10 + d, FALSE)

\* a conversion that gives 0 for every text that is not a number throughout
\* (what C9 as stated describes)
toIntWhole(s) ==
  IF \E i \in 1..Len(s) : ~IsDigit(s[i]) THEN 0
  ELSE DigitRun(s, 0, FALSE)[1]

\* String::toInt(): atol of the text: optional white space, optional sign,
\* the leading digits; 0 when there are none; clamped to the range of long
toInt(s) ==
  LET t == SkipSpace(s)
      neg == t # <<>> /\ Head(t) = 45
      signed == t # <<>> /\ (Head(t) = 45 \/ Head(t) = 43)
      r == DigitRun(IF signed THEN Tail(t) ELSE t, 0, FALSE)
  IN  IF neg THEN (IF r[2] THEN INT_MIN ELSE 0 - r[1])
      ELSE r[1]

RECURSIVE Digits(_)
Digits(n) ==
  IF n < 10 THEN <<48 + n>> ELSE Append(Digits(n \div 10), 48 + (n % 10))

\* String(int): the decimal text of a signed value
IntToStr(n) ==
  IF n >= 0 THEN Digits(n)
  ELSE LET m == 0 - (n + 1)
       IN  <<45>> \o (IF m % 10 = 9
                      THEN Digits((m \div 10) + 1) \o <<48>>
                      ELSE (IF m < 10 THEN <<>> ELSE Digits(m \div 10))
                           \o <<48 + (m % 10) + 1>>)

\* the four bytes of a 32-bit value in memory (little endian)
LE4(n) == <<Lo(n) % 256, Lo(n) \div 256, Hi(n) % 256, Hi(n) \div 256>>

(***************************************************************************)
(* page-turner.ino: constants and the configuration record.                *)
(***************************************************************************)
\* sizeof(config.ssid), sizeof(config.password), sizeof(config.koReaderIP)
SSID_SIZE == 32

PASSWORD_SIZE == 32

IP_SIZE == 16

\* const unsigned long longPressDuration = 500
longPressDuration == 500

\* const int batteryThreshold = 5
batteryThreshold == 5

\* the delayed screen-off of handleScreenSwitch, in ms
SCREEN_OFF_DELAY == 5000

\* setupWiFi: the connection is awaited for 10000 ms in polls of 500 ms
WIFI_WAIT == 10000

WIFI_POLL == 500

\* http.setConnectTimeout(500)
CONNECT_TIMEOUT == 500

MS_PER_SECOND == 1000

\* "defaultSSID", "defaultPass", "192.168.1.100"
defaultSSID == <<100, 101, 102, 97, 117, 108, 116, 83, 83, 73, 68>>

defaultPass == <<100, 101, 102, 97, 117, 108, 116, 80, 97, 115, 115>>

defaultIP == <<49, 57, 50, 46, 49, 54, 56, 46, 49, 46, 49, 48, 48>>

\* the byte of a bool: true is stored as 1, false as 0
BoolByte(flag) == IF flag THEN 1 ELSE 0

\* what a test of a bool of the configuration finds: the byte is not zero
IsSet(byte) == byte # 0

\* struct Config with its default member initialisers.  A bool is held as
\* its byte; padding is what each of the two-byte gaps behind beepOnPress
\* and behind shutdownCountdownBeep holds, zero in the global at start
DefaultConfig ==
  [ ssid |-> strncpy(defaultSSID, SSID_SIZE),
    password |-> strncpy(defaultPass, PASSWORD_SIZE),
    koReaderIP |-> strncpy(defaultIP, IP_SIZE),
    koReaderPort |-> 8080,
    aBtnClickAction |-> 1,
    aBtnHoldAction |-> 2,
    bBtnClickAction |-> 0,
    bBtnHoldAction |-> 3,
    keepScreenOn |-> BoolByte(TRUE),
    beepOnPress |-> BoolByte(TRUE),
    autoShutdownTime |-> 600,
    shutdownCountdownScreen |-> BoolByte(TRUE),
    shutdownCountdownBeep |-> BoolByte(FALSE),
    countdownTime |-> 10,
    padding |-> <<0, 0>> ]

\* A Config read from storage that was never written: every byte is 0xFF,
\* the padding included, so the char arrays hold no terminator and every
\* int is -1.  A bool whose byte is 0xFF is no valid bool: it tests as true
\* (the byte is not zero), and what its negation gives is left open
\* (LogicalNot).
ErasedConfig ==
  [ ssid |-> Fill(255, SSID_SIZE),
    password |-> Fill(255, PASSWORD_SIZE),
    koReaderIP |-> Fill(255, IP_SIZE),
    koReaderPort |-> -1,
    aBtnClickAction |-> -1,
    aBtnHoldAction |-> -1,
    bBtnClickAction |-> -1,
    bBtnHoldAction |-> -1,
    keepScreenOn |-> 255,
    beepOnPress |-> 255,
    autoShutdownTime |-> -1,
    shutdownCountdownScreen |-> 255,
    shutdownCountdownBeep |-> 255,
    countdownTime |-> -1,
    padding |-> <<255, 255>> ]

(***************************************************************************)
(* part_000: constants and the stored record.                              *)
(***************************************************************************)
\* "M5StickC-Plus2"
DEFAULT_SSID ==
  <<77, 53, 83, 116, 105, 99, 107, 67, 45, 80, 108, 117, 115, 50>>

\* "12345678"
DEFAULT_PASS == <<49, 50, 51, 52, 53, 54, 55, 56>>

\* "192.168.2.99"
DEFAULT_IP == <<49, 57, 50, 46, 49, 54, 56, 46, 50, 46, 57, 57>>

DEFAULT_PORT == 8080

SHUTDOWN_TIMEOUT == 600000

COUNTDOWN_LENGTH == 10000

COUNTDOWN_START == SHUTDOWN_TIMEOUT - COUNTDOWN_LENGTH

COUNTDOWN_SECONDS == 10

ENABLE_SCREEN_PROMPT == TRUE

ENABLE_BUTTON_BEEP == TRUE

SCREEN_TIMEOUT == 3000

\* 0xAA55
CONFIG_MAGIC == 43605

DEVICE_SSID_SIZE == 32

DEVICE_PASSWORD_SIZE == 64

TARGET_IP_SIZE == 16

\* isButtonCPressed(): a press counts when more than 500 ms passed since
\* the last one
PRESS_GAP == 500

\* setup(): delay(1000) before connectWiFi()
BOOT_DELAY == 1000

\* startAPMode(): delay(100)
AP_DELAY == 100

\* loop(): the status screen is looked at again after 1000 ms
STATUS_PERIOD == 1000

\* uint16_t
UInt16(n) == n % Limb

\* Config deviceConfig as the zero-initialised global it is before setup()
ZeroDeviceConfig ==
  [ magic |-> 0,
    ssid |-> Fill(0, DEVICE_SSID_SIZE),
    password |-> Fill(0, DEVICE_PASSWORD_SIZE),
    targetIP |-> Fill(0, TARGET_IP_SIZE),
    targetPort |-> 0 ]

\* the record loadConfig() builds when the marker does not match
DefaultDeviceConfig ==
  [ magic |-> CONFIG_MAGIC,
    ssid |-> strncpy(DEFAULT_SSID, DEVICE_SSID_SIZE),
    password |-> strncpy(DEFAULT_PASS, DEVICE_PASSWORD_SIZE),
    targetIP |-> strncpy(DEFAULT_IP, TARGET_IP_SIZE),
    targetPort |-> DEFAULT_PORT ]

\* the record read from storage that was never written: every byte 0xFF
ErasedDeviceConfig ==
  [ magic |-> UInt16(-1),
    ssid |-> Fill(255, DEVICE_SSID_SIZE),
    password |-> Fill(255, DEVICE_PASSWORD_SIZE),
    targetIP |-> Fill(255, TARGET_IP_SIZE),
    targetPort |-> UInt16(-1) ]

(***************************************************************************)
(* What the model explores.                                                *)
(***************************************************************************)
\* millis() is followed up to MaxTime
MaxTime == 11000

\* time that passes between two iterations of loop(), in ms
TimeSteps == {0, 500}

\* time an outbound GET takes: none, or the connect timeout
RequestDurations == {0, CONNECT_TIMEOUT}

\* what a read that leaves config finds behind it before the first zero
\* byte: nothing, or the bytes 0xE0 0x07 of the object the build put there
BehindConfig == {<<>>, <<224, 7>>}

\* part_000: time the outbound GETs of one iteration take: none, or half a
\* second
DeviceRequestDurations == {0, 500}

\* polls of setupWiFi's wait loop before it ends (20 polls: the 10 s are over)
ConnectPolls == {19, WIFI_WAIT \div WIFI_POLL}

\* the save forms submitted: field name -> submitted text (a checkbox is
\* present or absent)
BaseForm ==
  [ ssid |-> <<104, 111, 109, 101>>,                    \* "home"
    password |-> <<112, 119>>,                          \* "pw"
    koReaderIP |-> defaultIP,                           \* "192.168.1.100"
    koReaderPort |-> <<56, 48, 56, 48>>,                \* "8080"
    aClick |-> <<49>>, aLong |-> <<50>>,                \* "1", "2"
    bClick |-> <<48>>, bLong |-> <<51>>,                \* "0", "3"
    keepScreenOn |-> TRUE,
    beepOnPress |-> TRUE,
    autoShutdownTime |-> <<50>>,                        \* "2"
    shutdownCountdownScreen |-> TRUE,
    shutdownCountdownBeep |-> FALSE,
    countdownTime |-> <<49>> ]                          \* "1"

Forms ==
  { BaseForm,
    \* non-numeric port and timing fields: "abc"
    [BaseForm EXCEPT !.koReaderPort = <<97, 98, 99>>,
                     !.autoShutdownTime = <<97, 98, 99>>,
                     !.countdownTime = <<97, 98, 99>>],
    \* countdownTime = autoShutdownTime = "2"
    [BaseForm EXCEPT !.countdownTime = <<50>>],
    \* countdownTime "3" > autoShutdownTime "2"
    [BaseForm EXCEPT !.countdownTime = <<51>>],
    \* no countdown prompt, no beep; ssid "defaultSSID"; a port that
    \* starts with digits: "80abc"
    \* and "7" as the action of a hold of button B
    [BaseForm EXCEPT !.shutdownCountdownScreen = FALSE,
                     !.shutdownCountdownBeep = TRUE,
                     !.beepOnPress = FALSE,
                     !.ssid = defaultSSID,
                     !.koReaderPort = <<56, 48, 97, 98, 99>>,
                     !.bLong = <<55>>],
    \* autoShutdownTime "4294968": 4294968 * 1000 does not fit 32 bits
    [BaseForm EXCEPT !.autoShutdownTime = <<52, 50, 57, 52, 57, 54, 56>>],
    \* an ssid of 33 characters, one more than the array holds: "xx...x",
    \* and a host of 16 characters, as many as the array holds:
    \* "192.168.100.2000"
    [BaseForm EXCEPT !.ssid = Fill(120, SSID_SIZE + 1),
                     !.koReaderIP = <<49, 57, 50, 46, 49, 54, 56, 46, 49, 48,
                                      48, 46, 50, 48, 48, 48>>],
    \* "7" as the action of a click of button A: none of the actions 0..3
    [BaseForm EXCEPT !.aClick = <<55>>] }

\* part_000: loop() is followed for MaxTicks iterations after each boot
MaxTicks == 3

\* part_000: time between two iterations of loop(): half a second, ten
\* seconds, or the long wait up to half a second before the countdown starts
LoopSteps == {500, COUNTDOWN_LENGTH, COUNTDOWN_START - 500}

\* part_000: what the storage holds when the device is first switched on:
\* never written, zeroed, or the defaults with a marker that is off by one
FirstRecords ==
  { ErasedDeviceConfig,
    ZeroDeviceConfig,
    [DefaultDeviceConfig EXCEPT !.magic = CONFIG_MAGIC - 1,
                                !.targetPort = 80] }

\* part_000: the forms posted to /config and /update
BaseDeviceForm ==
  [ ssid |-> <<104, 111, 109, 101>>,                    \* "home"
    pass |-> <<112, 119>>,                              \* "pw"
    ip |-> DEFAULT_IP,                                  \* "192.168.2.99"
    port |-> <<56, 48, 56, 48>> ]                       \* "8080"

DeviceForms ==
  { BaseDeviceForm,
    [BaseDeviceForm EXCEPT !.port = <<97, 98, 99>>] }           \* "abc"

\* what StickCP2.Power.getBatteryLevel() may report, in percent: two levels
\* batteryThreshold apart
BatteryLevels == {80, 75}

\* the long-idle runs: millis() is followed up to MaxLongTime, in steps of
\* nothing or 2.5 s
MaxLongTime == 18000

LongSteps == {0, 2500}

\* the forms whose records the long-idle runs start from: the screen is not
\* kept on, power-off after 8 s idle, countdown during the last 3 s; and
\* the same with the screen kept on
ScreenForm ==
  [BaseForm EXCEPT !.keepScreenOn = FALSE,
                   !.autoShutdownTime = <<56>>,                 \* "8"
                   !.countdownTime = <<51>>]                    \* "3"

LongIdleForms == {ScreenForm, [ScreenForm EXCEPT !.keepScreenOn = TRUE]}

(***************************************************************************)
(* State.                                                                  *)
(***************************************************************************)
VARIABLES
  sketch,                      \* which sketch is flashed
  pc,                          \* the next step of setup()/loop()
  now,                         \* millis()
  wifi,                        \* WiFi.status() == WL_CONNECTED
  softAP,                      \* the access point is up
  serverOn,                    \* server.begin() was called
  displayOn,                   \* the display is awake
  eeprom,                      \* the record held in non-volatile storage
  config,                      \* Config config
  lastDisplayedText,
  lastActiveTime,
  pwrBtnpressStartTime,
  lastRemainingSeconds,
  lastBatteryLevel,
  turnOnScreen,
  delayToTurnOffScreen,
  onCountdown,
  screenStateBeforeCountdown,
  ev,                          \* what the current iteration has seen so far
  reqs,                        \* the URLs requested in the current iteration
  painted,                     \* the texts painted in the current iteration
  lastForm,                    \* the form of the last save, <<>> if none
  saveLog,                     \* what the last save handler did, in order
  served,                      \* server.handleClient() has run since boot
  deviceConfig,                \* part_000: Config deviceConfig
  screenEnabled,
  isAPMode,
  lastActivityTime,
  lastPress,                   \* the static of isButtonCPressed()
  lastScreenUpdate,
  lastSSID,
  lastIP,
  lastTarget,
  ticks                        \* part_000: iterations of loop() since boot

envVars == <<now, wifi, softAP, serverOn, displayOn, eeprom>>

inoVars == <<config, lastDisplayedText, lastActiveTime, pwrBtnpressStartTime,
             lastRemainingSeconds, lastBatteryLevel, turnOnScreen,
             delayToTurnOffScreen, onCountdown, screenStateBeforeCountdown>>

histVars == <<ev, reqs, painted, lastForm, saveLog, served>>

p0Vars == <<deviceConfig, screenEnabled, isAPMode, lastActivityTime,
            lastPress, lastScreenUpdate, lastSSID, lastIP, lastTarget, ticks>>

vars == <<sketch, pc, envVars, inoVars, histVars, p0Vars>>

\* ev.event: what the button handler that ran last saw of its button;
\* ev.acted: some handler of the iteration has reset the idle timer;
\* ev.pressed: the buttons part_000's loop() found pressed;
\* ev.beeped: that handler sounded the tone of a button press;
\* ev.at: part_000: the millis() loop() started with
NoEvents ==
  [event |-> "none", acted |-> FALSE, pressed |-> {}, beeped |-> FALSE,
   at |-> 0]

\* the texts displayText is given, up to equality
NoText == <<"", 0>>

ConnectingText == <<"connecting", 0>>

\* the info text: connected, it names the KOReader host as read from
\* config.koReaderIP and the port; else the access point; then the battery
\* level
InfoText(connected, level, host, port) ==
  IF connected THEN <<"info", 1, level, host, port>>
               ELSE <<"info", 0, level, <<>>, 0>>

CountdownText(seconds) == <<"countdown", seconds>>

\* part_000: the status screen, for a station that is connected (the
\* network, the address and the target) or not (the access point to join)
StatusText(connected) == <<"status", IF connected THEN 1 ELSE 0>>

\* WiFi.localIP().toString(), up to equality: the address the station was
\* given, and the one of a station without a connection; an empty String
NoIP == ""

LocalIP(connected) == IF connected THEN "assigned" ELSE "0.0.0.0"

(***************************************************************************)
(* page-turner.ino: the functions.                                         *)
(***************************************************************************)
\* the outcomes of !flag for a bool of the configuration: a byte that is
\* neither 0 nor 1 is no valid bool and its negation is whatever the build
\* computes from it
LogicalNot(byte) == IF byte \in {0, 1} THEN {byte = 0} ELSE BOOLEAN

\* saveConfig(): EEPROM.put(0, config); EEPROM.commit()
saveConfig(cfg) == eeprom' = cfg

\* loadConfig(): EEPROM.get(0, config) replaces the whole record by what the
\* storage holds; a record whose ssid is "defaultSSID" is written back
loadConfig ==
  /\ config' = eeprom
  /\ IF CStr(config'.ssid) = defaultSSID
     THEN saveConfig(config')
     ELSE eeprom' = eeprom
  /\ delayToTurnOffScreen' \in LogicalNot(config'.keepScreenOn)

\* displayText(text): paints only a text that differs from the last one
displayText(text) ==
  /\ lastDisplayedText' = text
  /\ painted' = IF text # lastDisplayedText THEN Append(painted, text)
                                             ELSE painted

\* a setupWiFi that starts the access point whether or not the station
\* is connected (what C17 rules out)
setupWiFiAlwaysAP ==
  /\ displayText(ConnectingText)
  /\ \E polls \in ConnectPolls :
       /\ now' = polls * WIFI_POLL
       /\ IF polls * WIFI_POLL < WIFI_WAIT THEN wifi' = TRUE
                                          ELSE wifi' \in BOOLEAN
  /\ softAP' = TRUE
  /\ serverOn' = TRUE

\* setupWiFi(): waits for the connection in polls of 500 ms for at most
\* 10 s, starts the access point when there is none, starts the server
setupWiFi ==
  /\ displayText(ConnectingText)
  /\ \E polls \in ConnectPolls :
       /\ now' = polls * WIFI_POLL
       /\ IF polls * WIFI_POLL < WIFI_WAIT THEN wifi' = TRUE
                                          ELSE wifi' \in BOOLEAN
  /\ softAP' = ~wifi'
  /\ serverOn' = TRUE

\* setup(): loadConfig(); initDisplay(); setupWiFi(); lastActiveTime = millis()
setup ==
  /\ sketch = "page-turner.ino" /\ pc = "boot"
  /\ loadConfig
  /\ setupWiFi
  /\ lastActiveTime' = now'
  /\ displayOn' = TRUE
  /\ pc' = "update"
  /\ UNCHANGED <<sketch, p0Vars, pwrBtnpressStartTime, lastRemainingSeconds,
                 turnOnScreen, onCountdown, screenStateBeforeCountdown,
                 ev, reqs, lastForm, saveLog, served,
                 lastBatteryLevel>>

\* loop(), StickCP2.update(): a new iteration starts; time has passed and
\* the station may have gained or lost its connection
update ==
  /\ sketch = "page-turner.ino" /\ pc = "update"
  /\ \E dt \in TimeSteps : now + dt <= MaxTime /\ now' = now + dt
  /\ wifi' \in BOOLEAN
  /\ ev' = NoEvents
  /\ reqs' = <<>>
  /\ painted' = <<>>
  /\ pc' = "handleScreenSwitch"
  /\ UNCHANGED <<sketch, p0Vars, softAP, serverOn, displayOn, eeprom, inoVars,
                 lastForm, saveLog, served>>

\* update, with the time steps of the long-idle runs
updateLong ==
  /\ sketch = "page-turner.ino" /\ pc = "update"
  /\ \E dt \in LongSteps : now + dt <= MaxLongTime /\ now' = now + dt
  /\ wifi' \in BOOLEAN
  /\ ev' = NoEvents
  /\ reqs' = <<>>
  /\ painted' = <<>>
  /\ pc' = "handleScreenSwitch"
  /\ UNCHANGED <<sketch, p0Vars, softAP, serverOn, displayOn, eeprom, inoVars,
                 lastForm, saveLog, served>>

\* abs(x)
Abs(x) == IF x < 0 THEN 0 - x ELSE x

\* the bytes of config from koReaderIP to beepOnPress
HostBytes(cfg) ==
  cfg.koReaderIP \o LE4(cfg.koReaderPort) \o LE4(cfg.aBtnClickAction)
    \o LE4(cfg.aBtnHoldAction) \o LE4(cfg.bBtnClickAction)
    \o LE4(cfg.bBtnHoldAction)
    \o <<cfg.keepScreenOn, cfg.beepOnPress>>

\* the bytes a read finds behind beepOnPress: padding, autoShutdownTime, the
\* two countdown flags, padding, countdownTime, and what lies behind config
TailBytes(cfg, behind) ==
  cfg.padding \o LE4(cfg.autoShutdownTime)
    \o <<cfg.shutdownCountdownScreen, cfg.shutdownCountdownBeep>>
    \o cfg.padding \o LE4(cfg.countdownTime) \o behind

\* what a read of config that no terminator stops up to beepOnPress may find
\* behind beepOnPress; a record with a zero byte before that is never left
OverrunTails(cfg) ==
  IF FirstNul(HostBytes(cfg), 1) <= Len(HostBytes(cfg))
  THEN {<<>>}
  ELSE {TailBytes(cfg, behind) : behind \in BehindConfig}

\* String(config.koReaderIP): the C string at koReaderIP; an array that
\* holds no terminator is read on into the fields that follow it in memory,
\* koReaderPort to beepOnPress, and then into beyond
HostString(cfg, beyond) == CStr(HostBytes(cfg) \o beyond)

\* drawInfoScreen(): the status text of the current connection, built with
\* config.koReaderIP as sendRequest's URL is, with the battery level, which
\* follows StickCP2.Power.getBatteryLevel() when there
\* is none yet or when it moved by batteryThreshold or more
drawInfoScreen ==
  \E currentBatteryLevel \in BatteryLevels :
    /\ lastBatteryLevel' =
         IF \/ lastBatteryLevel < 0
            \/ Abs(currentBatteryLevel - lastBatteryLevel) >= batteryThreshold
         THEN currentBatteryLevel
         ELSE lastBatteryLevel
    /\ \E beyond \in (IF wifi THEN OverrunTails(config) ELSE {<<>>}) :
         displayText(InfoText(wifi, lastBatteryLevel',
                              HostString(config, beyond),
                              config.koReaderPort))

\* handleScreenSwitch()
handleScreenSwitch ==
  /\ sketch = "page-turner.ino" /\ pc = "handleScreenSwitch"
  /\ \E notKeep \in LogicalNot(config.keepScreenOn) :
       LET due == /\ delayToTurnOffScreen
                  /\ notKeep
                  /\ UGt(Sub32(now, lastActiveTime), SCREEN_OFF_DELAY)
       IN  /\ turnOnScreen' = IF due THEN FALSE ELSE turnOnScreen
           /\ delayToTurnOffScreen' = IF due THEN FALSE
                                             ELSE delayToTurnOffScreen
  /\ IF turnOnScreen'
     THEN /\ displayOn' = TRUE
          /\ IF ~onCountdown THEN drawInfoScreen
                             ELSE UNCHANGED <<lastDisplayedText, painted,
                                              lastBatteryLevel>>
     ELSE /\ displayOn' = FALSE
          /\ UNCHANGED <<lastDisplayedText, painted, lastBatteryLevel>>
  /\ pc' = "handleNormalBtnEventA"
  /\ UNCHANGED <<sketch, p0Vars, now, wifi, softAP, serverOn, eeprom, config,
                 lastActiveTime, pwrBtnpressStartTime, lastRemainingSeconds,
                 onCountdown, screenStateBeforeCountdown, ev, reqs,
                 lastForm, saveLog, served>>

\* the path of the URL of a logical action, <<>> for no action
\* (sendRequest's switch)
ActionPath(action) ==
  CASE action = 0 ->  \* "/koreader/event/GotoViewRel/-1"
         <<47, 107, 111, 114, 101, 97, 100, 101, 114, 47, 101, 118, 101,
           110, 116, 47, 71, 111, 116, 111, 86, 105, 101, 119, 82, 101,
           108, 47, 45, 49>>
    [] action = 1 ->  \* "/koreader/event/GotoViewRel/1"
         <<47, 107, 111, 114, 101, 97, 100, 101, 114, 47, 101, 118, 101,
           110, 116, 47, 71, 111, 116, 111, 86, 105, 101, 119, 82, 101,
           108, 47, 49>>
    [] action = 2 ->  \* "/koreader/event/FullRefresh"
         <<47, 107, 111, 114, 101, 97, 100, 101, 114, 47, 101, 118, 101,
           110, 116, 47, 70, 117, 108, 108, 82, 101, 102, 114, 101, 115,
           104>>
    [] action = 3 ->  \* "/koreader/event/ToggleFrontlight"
         <<47, 107, 111, 114, 101, 97, 100, 101, 114, 47, 101, 118, 101,
           110, 116, 47, 84, 111, 103, 103, 108, 101, 70, 114, 111, 110,
           116, 108, 105, 103, 104, 116>>
    [] OTHER -> <<>>

\* "http://"
HttpScheme == <<104, 116, 116, 112, 58, 47, 47>>

\* the URL sendRequest builds for an action in 0..3
RequestUrl(cfg, action, beyond) ==
  HttpScheme \o HostString(cfg, beyond) \o <<58>>
    \o IntToStr(cfg.koReaderPort)
    \o ActionPath(action)

\* a sender that requests the bare event path for an unknown action (what
\* C23 rules out)
sendRequestAnyAction(action) ==
  IF ~wifi
  THEN UNCHANGED <<reqs, now, wifi>>
  ELSE /\ \E beyond \in OverrunTails(config) :
            reqs' = Append(reqs, RequestUrl(config, action, beyond))
       /\ \E d \in RequestDurations : now' = now + d
       /\ wifi' \in BOOLEAN

\* sendRequest(action): nothing without a connection and nothing for an
\* unknown action; else one GET, which may take up to the connect timeout
\* and during which the station may lose its connection
sendRequest(action) ==
  IF ~wifi \/ ActionPath(action) = <<>>
  THEN UNCHANGED <<reqs, now, wifi>>
  ELSE /\ \E beyond \in OverrunTails(config) :
            reqs' = Append(reqs, RequestUrl(config, action, beyond))
       /\ \E d \in RequestDurations : now' = now + d
       /\ wifi' \in BOOLEAN

\* what a button reports in one iteration: wasClicked(), wasHold() or neither
ButtonEvents == {"none", "clicked", "hold"}

\* a handler that sends the click action for a hold as well (what C18
\* rules out)
handleNormalBtnEventClickOnly(clickAction, holdAction) ==
  \E event \in ButtonEvents :
    LET acted == wifi /\ event # "none"
    IN  /\ ev' = [event |-> event, acted |-> ev.acted \/ acted,
                  pressed |-> {}, beeped |-> acted /\ IsSet(config.beepOnPress),
                  at |-> 0]
        /\ IF acted
           THEN /\ lastActiveTime' = now
                /\ lastRemainingSeconds' = -1
                /\ sendRequest(clickAction)
           ELSE UNCHANGED <<lastActiveTime, lastRemainingSeconds, reqs, now,
                            wifi>>

\* handleNormalBtnEvent(btn, clickAction, holdAction)
handleNormalBtnEvent(clickAction, holdAction) ==
  \E event \in ButtonEvents :
    LET acted == wifi /\ event # "none"
    IN  /\ ev' = [event |-> event, acted |-> ev.acted \/ acted,
                  pressed |-> {}, beeped |-> acted /\ IsSet(config.beepOnPress),
                  at |-> 0]
        /\ IF acted
           THEN /\ lastActiveTime' = now
                /\ lastRemainingSeconds' = -1
                /\ IF event = "clicked" THEN sendRequest(clickAction)
                                        ELSE sendRequest(holdAction)
           ELSE UNCHANGED <<lastActiveTime, lastRemainingSeconds, reqs, now,
                            wifi>>

\* loop(): handleNormalBtnEvent(StickCP2.BtnA, ...)
buttonA ==
  /\ sketch = "page-turner.ino" /\ pc = "handleNormalBtnEventA"
  /\ handleNormalBtnEvent(config.aBtnClickAction, config.aBtnHoldAction)
  /\ pc' = "handleNormalBtnEventB"
  /\ UNCHANGED <<sketch, p0Vars, softAP, serverOn, displayOn, eeprom,
                 config, lastDisplayedText, pwrBtnpressStartTime, turnOnScreen,
                 delayToTurnOffScreen, onCountdown,
                 screenStateBeforeCountdown, painted, lastForm, saveLog, served,
                 lastBatteryLevel>>

\* loop(): handleNormalBtnEvent(StickCP2.BtnB, ...)
buttonB ==
  /\ sketch = "page-turner.ino" /\ pc = "handleNormalBtnEventB"
  /\ handleNormalBtnEvent(config.bBtnClickAction, config.bBtnHoldAction)
  /\ pc' = "handlePWRBtnEvent"
  /\ UNCHANGED <<sketch, p0Vars, softAP, serverOn, displayOn, eeprom,
                 config, lastDisplayedText, pwrBtnpressStartTime, turnOnScreen,
                 delayToTurnOffScreen, onCountdown,
                 screenStateBeforeCountdown, painted, lastForm, saveLog, served,
                 lastBatteryLevel>>

\* a debounce that counts a press of exactly 500 ms as a click (what C19
\* rules out)
isPWRBtnClickedInclusive(btnState, clicked) ==
  IF btnState = "LOW"
  THEN /\ pwrBtnpressStartTime' =
            IF pwrBtnpressStartTime = 0 THEN now ELSE pwrBtnpressStartTime
       /\ clicked = FALSE
  ELSE IF pwrBtnpressStartTime # 0
       THEN /\ pwrBtnpressStartTime' = 0
            /\ clicked = ~UGt(Sub32(now, pwrBtnpressStartTime),
                              longPressDuration)
       ELSE /\ UNCHANGED pwrBtnpressStartTime
            /\ clicked = FALSE

\* isPWRBtnClicked() for the sampled level of the pin; clicked is its result
isPWRBtnClicked(btnState, clicked) ==
  IF btnState = "LOW"
  THEN /\ pwrBtnpressStartTime' =
            IF pwrBtnpressStartTime = 0 THEN now ELSE pwrBtnpressStartTime
       /\ clicked = FALSE
  ELSE IF pwrBtnpressStartTime # 0
       THEN /\ pwrBtnpressStartTime' = 0
            /\ clicked = ~UGe(Sub32(now, pwrBtnpressStartTime),
                              longPressDuration)
       ELSE /\ UNCHANGED pwrBtnpressStartTime
            /\ clicked = FALSE

\* a power-key handler that leaves delayToTurnOffScreen as it is (what C11
\* rules out)
handlePWRBtnEventKeepsDelay ==
  /\ sketch = "page-turner.ino" /\ pc = "handlePWRBtnEvent"
  /\ \E btnState \in {"LOW", "HIGH"}, clicked \in BOOLEAN :
       /\ isPWRBtnClicked(btnState, clicked)
       /\ ev' = [event |-> IF clicked THEN "clicked" ELSE "none",
                 acted |-> ev.acted \/ clicked, pressed |-> {},
                 beeped |-> clicked /\ IsSet(config.beepOnPress), at |-> 0]
       /\ IF clicked
          THEN /\ lastActiveTime' = now
               /\ lastRemainingSeconds' = -1
               /\ turnOnScreen' = ~turnOnScreen
          ELSE UNCHANGED <<lastActiveTime, lastRemainingSeconds,
                           turnOnScreen>>
  /\ pc' = "handleAutoShutdown"
  /\ UNCHANGED <<sketch, p0Vars, envVars, config, lastDisplayedText,
                 onCountdown, delayToTurnOffScreen,
                 screenStateBeforeCountdown, reqs, painted,
                 lastForm, saveLog, served,
                 lastBatteryLevel>>

\* handlePWRBtnEvent()
handlePWRBtnEvent ==
  /\ sketch = "page-turner.ino" /\ pc = "handlePWRBtnEvent"
  /\ \E btnState \in {"LOW", "HIGH"}, clicked \in BOOLEAN :
       /\ isPWRBtnClicked(btnState, clicked)
       /\ ev' = [event |-> IF clicked THEN "clicked" ELSE "none",
                 acted |-> ev.acted \/ clicked, pressed |-> {},
                 beeped |-> clicked /\ IsSet(config.beepOnPress), at |-> 0]
       /\ IF clicked
          THEN /\ lastActiveTime' = now
               /\ lastRemainingSeconds' = -1
               /\ turnOnScreen' = ~turnOnScreen
               /\ delayToTurnOffScreen' = FALSE
          ELSE UNCHANGED <<lastActiveTime, lastRemainingSeconds,
                           turnOnScreen, delayToTurnOffScreen>>
  /\ pc' = "handleAutoShutdown"
  /\ UNCHANGED <<sketch, p0Vars, envVars, config, lastDisplayedText,
                 onCountdown, screenStateBeforeCountdown, reqs, painted,
                 lastForm, saveLog, served,
                 lastBatteryLevel>>

\* config.autoShutdownTime * 1000, as compared with the unsigned idle time
ShutdownThreshold(cfg) == Mul32(cfg.autoShutdownTime, MS_PER_SECOND)

\* (config.autoShutdownTime - config.countdownTime) * 1000, likewise
CountdownThreshold(cfg) ==
  Mul32(Sub32(cfg.autoShutdownTime, cfg.countdownTime), MS_PER_SECOND)

\* int remainingSeconds = config.autoShutdownTime - inactiveTime / 1000
RemainingSeconds(cfg, inactiveTime) ==
  Sub32(cfg.autoShutdownTime, UDiv(inactiveTime, MS_PER_SECOND))

\* handleShutdownCountdown(currentTime, inactiveTime)
handleShutdownCountdown(currentTime, inactiveTime) ==
  IF IsSet(config.shutdownCountdownScreen)
  THEN /\ screenStateBeforeCountdown' =
            IF ~onCountdown THEN turnOnScreen ELSE screenStateBeforeCountdown
       /\ turnOnScreen' = TRUE
       /\ onCountdown' = TRUE
       /\ LET remainingSeconds == RemainingSeconds(config, inactiveTime)
          IN  IF remainingSeconds # lastRemainingSeconds
              THEN /\ displayText(CountdownText(remainingSeconds))
                   /\ lastRemainingSeconds' = remainingSeconds
              ELSE UNCHANGED <<lastDisplayedText, painted,
                               lastRemainingSeconds>>
  ELSE UNCHANGED <<screenStateBeforeCountdown, turnOnScreen, onCountdown,
                   lastDisplayedText, painted, lastRemainingSeconds>>

\* handleAutoShutdown(); StickCP2.Power.powerOff() halts the device
handleAutoShutdown ==
  /\ sketch = "page-turner.ino" /\ pc = "handleAutoShutdown"
  /\ LET currentTime == now
         inactiveTime == Sub32(currentTime, lastActiveTime)
     IN  IF UGe(inactiveTime, ShutdownThreshold(config))
         THEN /\ pc' = "off"
              /\ UNCHANGED <<screenStateBeforeCountdown, turnOnScreen,
                             onCountdown, lastDisplayedText, painted,
                             lastRemainingSeconds>>
         ELSE /\ pc' = "handleClient"
              /\ IF UGe(inactiveTime, CountdownThreshold(config))
                 THEN handleShutdownCountdown(currentTime, inactiveTime)
                 ELSE /\ turnOnScreen' = IF onCountdown
                                         THEN screenStateBeforeCountdown
                                         ELSE turnOnScreen
                      /\ onCountdown' = FALSE
                      /\ UNCHANGED <<screenStateBeforeCountdown,
                                     lastDisplayedText, painted,
                                     lastRemainingSeconds>>
  /\ UNCHANGED <<sketch, p0Vars, envVars, config, lastActiveTime,
                 pwrBtnpressStartTime, delayToTurnOffScreen, ev, reqs,
                 lastForm, saveLog, served,
                 lastBatteryLevel>>

\* server.handleClient() with no request pending, or with a GET of "/"
\* (handleRoot renders the form and changes nothing)
handleRoot ==
  /\ sketch = "page-turner.ino" /\ pc = "handleClient"
  /\ pc' = "update"
  /\ ev' = NoEvents /\ reqs' = <<>> /\ painted' = <<>>
  /\ served' = TRUE
  /\ UNCHANGED <<sketch, p0Vars, envVars, inoVars, lastForm, saveLog>>

\* the globals as the C++ initialisers leave them at every boot
PowerOn ==
  /\ now' = 0
  /\ wifi' = FALSE /\ softAP' = FALSE /\ serverOn' = FALSE
  /\ displayOn' = FALSE
  /\ config' = DefaultConfig
  /\ lastDisplayedText' = NoText
  /\ lastActiveTime' = 0
  /\ pwrBtnpressStartTime' = 0
  /\ lastRemainingSeconds' = -1
  /\ lastBatteryLevel' = -1
  /\ turnOnScreen' = TRUE
  /\ delayToTurnOffScreen' = FALSE
  /\ onCountdown' = FALSE
  /\ screenStateBeforeCountdown' = TRUE
  /\ ev' = NoEvents /\ reqs' = <<>> /\ painted' = <<>>
  /\ served' = FALSE
  /\ deviceConfig' = ZeroDeviceConfig
  /\ screenEnabled' = FALSE
  /\ isAPMode' = FALSE
  /\ lastActivityTime' = 0
  /\ lastPress' = 0
  /\ lastScreenUpdate' = 0
  /\ lastSSID' = <<>> /\ lastIP' = NoIP /\ lastTarget' = <<>>
  /\ ticks' = 0

\* the Config handleSave() makes of cfg with a form: strncpy of the three
\* texts, toInt() of the numbers, hasArg() of the check boxes; the padding
\* is left as it is
SavedConfig(cfg, form) ==
  [ cfg EXCEPT
      !.ssid = strncpy(form.ssid, SSID_SIZE),
      !.password = strncpy(form.password, PASSWORD_SIZE),
      !.koReaderIP = strncpy(form.koReaderIP, IP_SIZE),
      !.koReaderPort = toInt(form.koReaderPort),
      !.aBtnClickAction = toInt(form.aClick),
      !.aBtnHoldAction = toInt(form.aLong),
      !.bBtnClickAction = toInt(form.bClick),
      !.bBtnHoldAction = toInt(form.bLong),
      !.keepScreenOn = BoolByte(form.keepScreenOn),
      !.beepOnPress = BoolByte(form.beepOnPress),
      !.autoShutdownTime = toInt(form.autoShutdownTime),
      !.shutdownCountdownScreen = BoolByte(form.shutdownCountdownScreen),
      !.shutdownCountdownBeep = BoolByte(form.shutdownCountdownBeep),
      !.countdownTime = toInt(form.countdownTime) ]

\* what a save handler does after it has copied the form, in the order of
\* its statements: saveConfig(), server.send(200, ...), delay(1000),
\* ESP.restart()
SaveSteps == <<"saveConfig", "send", "delay", "restart">>

\* a save handler that restarts without writing the record (what C12 rules
\* out)
handleSaveNoPersist ==
  /\ sketch = "page-turner.ino" /\ pc = "handleClient" /\ serverOn
  /\ \E form \in Forms : lastForm' = form
  /\ eeprom' = eeprom
  /\ saveLog' = Tail(SaveSteps)
  /\ PowerOn
  /\ pc' = "boot"
  /\ UNCHANGED sketch

\* handleSave(): config is filled from the form and written to storage, the
\* confirmation is sent, and after delay(1000) ESP.restart() boots the
\* device again: the globals are initialised anew, the storage is kept
handleSave ==
  /\ sketch = "page-turner.ino" /\ pc = "handleClient" /\ serverOn
  /\ \E form \in Forms :
       /\ saveConfig(SavedConfig(config, form))
       /\ lastForm' = form
  /\ saveLog' = SaveSteps
  /\ PowerOn
  /\ pc' = "boot"
  /\ UNCHANGED sketch

(***************************************************************************)
(* part_000: the functions.  Of the display its being awake or asleep, the *)
(* countdown texts and the status screen with its cache (lastSSID, lastIP, *)
(* lastTarget) are followed.                                               *)
(***************************************************************************)
\* a saveConfig() that sets the marker but writes nothing (what C13 rules
\* out)
deviceSaveConfigNoCommit(cfg) ==
  /\ deviceConfig' = [cfg EXCEPT !.magic = CONFIG_MAGIC]
  /\ eeprom' = eeprom

\* saveConfig(): deviceConfig.magic = CONFIG_MAGIC; EEPROM.put; commit
deviceSaveConfig(cfg) ==
  /\ deviceConfig' = [cfg EXCEPT !.magic = CONFIG_MAGIC]
  /\ eeprom' = deviceConfig'

\* loadConfig(): a record whose marker is not CONFIG_MAGIC is replaced by the
\* defaults, which are written back
deviceLoadConfig ==
  IF eeprom.magic # CONFIG_MAGIC
  THEN deviceSaveConfig([DefaultDeviceConfig EXCEPT !.magic = 0])
  ELSE /\ deviceConfig' = eeprom
       /\ eeprom' = eeprom

\* connectWiFi(): waits for the connection in polls of 500 ms for at most
\* 10 s; startAPMode() when there is none; the server is started either way
connectWiFi ==
  \E polls \in ConnectPolls :
    /\ IF polls * WIFI_POLL < WIFI_WAIT THEN wifi' = TRUE
                                       ELSE wifi' \in BOOLEAN
    /\ isAPMode' = ~wifi'
    /\ softAP' = ~wifi'
    /\ serverOn' = TRUE
    /\ now' = BOOT_DELAY + polls * WIFI_POLL
              + (IF wifi' THEN 0 ELSE AP_DELAY) + SCREEN_TIMEOUT

\* the two bytes of a uint16_t, lowest first
LE2(n) == <<n % 256, n \div 256>>

\* String(deviceConfig.targetIP): the C string at targetIP; an array that
\* holds no terminator is read on into targetPort, and then into beyond:
\* whatever the build has placed behind deviceConfig
TargetHost(cfg, beyond) ==
  CStr(cfg.targetIP \o LE2(cfg.targetPort) \o beyond)

\* String(deviceConfig.ssid): the C string at ssid, read on into password,
\* targetIP, targetPort and beyond when no terminator stops it earlier
SsidString(cfg, beyond) ==
  CStr(cfg.ssid \o cfg.password \o cfg.targetIP \o LE2(cfg.targetPort)
       \o beyond)

\* whether the build has put screenEnabled and isAPMode right behind
\* deviceConfig, as far as a read can tell: a record whose targetIP or
\* targetPort holds a zero byte is never left
FlagsBehind(cfg) ==
  IF Len(TargetHost(cfg, <<>>)) < TARGET_IP_SIZE + 2 THEN {FALSE}
                                                    ELSE BOOLEAN

\* what a read that leaves deviceConfig finds behind targetPort: the bytes
\* of the two flags, or a zero byte
DeviceOverrunTail(placed, enabled, apMode) ==
  IF placed THEN <<IF enabled THEN 1 ELSE 0, IF apMode THEN 1 ELSE 0>>
            ELSE <<>>

\* drawStatusScreen(): currentSSID, currentIP and currentTarget
CurrentStatus(cfg, connected, beyond) ==
  << IF connected THEN SsidString(cfg, beyond) ELSE <<>>,
     LocalIP(connected),
     TargetHost(cfg, beyond) \o <<58>> \o IntToStr(cfg.targetPort) >>

\* setup(): loadConfig(); delay(1000); connectWiFi(), which paints the
\* connecting text and, without a connection, the access point to join;
\* drawStatusScreen(true) for SCREEN_TIMEOUT, then the display sleeps unless
\* screenEnabled; lastActivityTime = millis()
deviceSetup ==
  /\ sketch = "part_000" /\ pc = "boot"
  /\ deviceLoadConfig
  /\ connectWiFi
  /\ \E placed \in FlagsBehind(deviceConfig') :
       LET beyond == DeviceOverrunTail(placed, screenEnabled, isAPMode')
           current == CurrentStatus(deviceConfig', wifi', beyond)
       IN  /\ lastSSID' = current[1]
           /\ lastIP' = current[2]
           /\ lastTarget' = current[3]
  /\ painted' = <<ConnectingText>>
                  \o (IF wifi' THEN <<>> ELSE <<StatusText(FALSE)>>)
                  \o <<StatusText(wifi')>>
  /\ displayOn' = screenEnabled
  /\ lastActivityTime' = now'
  /\ pc' = "loop"
  /\ UNCHANGED <<sketch, inoVars, ev, reqs,
                 lastForm, saveLog, served, screenEnabled,
                 lastPress, lastScreenUpdate, ticks>>

\* int remainingSeconds = 10 - ((inactiveTime - COUNTDOWN_START) / 1000)
DeviceRemainingSeconds(inactiveTime) ==
  Sub32(COUNTDOWN_SECONDS,
        UDiv(Sub32(inactiveTime, COUNTDOWN_START), MS_PER_SECOND))

\* "/koreader/event/GotoViewRel/"
GotoViewRel ==
  <<47, 107, 111, 114, 101, 97, 100, 101, 114, 47, 101, 118, 101, 110, 116,
    47, 71, 111, 116, 111, 86, 105, 101, 119, 82, 101, 108, 47>>

\* the URL sendTurnPageRequest builds
TurnPageUrl(cfg, turnPageSize, beyond) ==
  HttpScheme \o TargetHost(cfg, beyond)
    \o <<58>> \o IntToStr(cfg.targetPort) \o GotoViewRel
    \o IntToStr(turnPageSize)

\* sendTurnPageRequest(1) for button A, then (-1) for button B: each is one
\* http.begin(url) and http.GET(), whatever the state of the network
TurnPageRequests(pressedA, pressedB, beyond) ==
  (IF pressedA THEN <<TurnPageUrl(deviceConfig, 1, beyond)>> ELSE <<>>)
  \o (IF pressedB THEN <<TurnPageUrl(deviceConfig, -1, beyond)>> ELSE <<>>)

\* the time the http.GET() calls of one iteration block: none when no
\* button is pressed and no request is sent
DeviceDurationsOf(sent) == IF sent THEN DeviceRequestDurations ELSE {0}

\* isButtonCPressed() for the sampled level of the pin, t being the
\* millis() it reads
isButtonCPressed(pinLow, t) == pinLow /\ UGt(Sub32(t, lastPress), PRESS_GAP)

\* loop() up to server.handleClient(): the idle check at currentTime
\* (power-off, or the countdown text handleShutdownCountdown draws), buttons
\* A and B with their blocking requests, then button C, whose
\* isButtonCPressed() reads millis() after the requests, with toggleScreen()
\* and its drawStatusScreen(true), then the status screen, which is redrawn
\* every STATUS_PERIOD while screenEnabled when its lines have changed
deviceLoop ==
  /\ sketch = "part_000" /\ pc = "loop" /\ ticks < MaxTicks
  /\ ticks' = ticks + 1
  /\ wifi' \in (IF isAPMode THEN {FALSE} ELSE BOOLEAN)
  /\ \E dt \in LoopSteps :
     LET currentTime == now + dt
         inactiveTime == Sub32(currentTime, lastActivityTime)
     IN  IF UGe(inactiveTime, SHUTDOWN_TIMEOUT)
         THEN /\ pc' = "off"
              /\ now' = currentTime
              /\ ev' = NoEvents /\ reqs' = <<>> /\ painted' = <<>>
              /\ UNCHANGED <<displayOn, lastRemainingSeconds, screenEnabled,
                             lastActivityTime, lastPress, lastScreenUpdate,
                             lastSSID, lastIP, lastTarget>>
         ELSE \E pressedA \in BOOLEAN, pressedB \in BOOLEAN,
                 pinLow \in BOOLEAN :
              \E placed \in FlagsBehind(deviceConfig),
                 duration \in DeviceDurationsOf(pressedA \/ pressedB) :
           LET countdown == UGe(inactiveTime, COUNTDOWN_START)
               prompt == countdown /\ ENABLE_SCREEN_PROMPT
               remainingSeconds == DeviceRemainingSeconds(inactiveTime)
               redraw == prompt /\ remainingSeconds # lastRemainingSeconds
               pressedAB == pressedA \/ pressedB
               afterRequests == currentTime + duration
               pressedC == isButtonCPressed(pinLow, afterRequests)
               awake1 == IF prompt THEN TRUE ELSE displayOn
               awake2 == IF pressedAB /\ ~screenEnabled THEN FALSE
                                                       ELSE awake1
               enabled == IF pressedC THEN ~screenEnabled ELSE screenEnabled
               forced == pressedC /\ enabled
               due == /\ enabled
                      /\ UGe(Sub32(currentTime, lastScreenUpdate),
                             STATUS_PERIOD)
               current ==
                 CurrentStatus(deviceConfig, wifi',
                               DeviceOverrunTail(placed, enabled, isAPMode))
               drawn == \/ forced
                        \/ due /\ current # <<lastSSID, lastIP, lastTarget>>
           IN  /\ pc' = "handleClient"
               /\ now' = afterRequests
               /\ painted' =
                    (IF redraw THEN <<CountdownText(remainingSeconds)>>
                               ELSE <<>>)
                    \o (IF drawn THEN <<StatusText(wifi')>> ELSE <<>>)
               /\ lastRemainingSeconds' =
                    IF pressedAB THEN -1
                    ELSE IF redraw THEN remainingSeconds
                    ELSE lastRemainingSeconds
               /\ reqs' = IF pressedAB
                          THEN TurnPageRequests(
                                 pressedA, pressedB,
                                 DeviceOverrunTail(placed, screenEnabled,
                                                   isAPMode))
                          ELSE <<>>
               /\ lastPress' = IF pressedC THEN afterRequests ELSE lastPress
               /\ screenEnabled' = enabled
               /\ displayOn' = IF pressedC THEN enabled ELSE awake2
               /\ lastSSID' = IF drawn THEN current[1] ELSE lastSSID
               /\ lastIP' = IF drawn THEN current[2] ELSE lastIP
               /\ lastTarget' = IF drawn THEN current[3] ELSE lastTarget
               /\ lastScreenUpdate' = IF due THEN currentTime
                                             ELSE lastScreenUpdate
               /\ lastActivityTime' = IF pressedAB \/ pressedC
                                      THEN currentTime ELSE lastActivityTime
               /\ ev' = [event |-> "none", acted |-> pressedAB \/ pressedC,
                         pressed |-> {b \in {"A", "B", "C"} :
                                        \/ b = "A" /\ pressedA
                                        \/ b = "B" /\ pressedB
                                        \/ b = "C" /\ pressedC},
                         beeped |-> pressedAB /\ ENABLE_BUTTON_BEEP,
                         at |-> currentTime]
  /\ UNCHANGED <<sketch, softAP, serverOn, eeprom, config, lastDisplayedText,
                 lastActiveTime, pwrBtnpressStartTime, turnOnScreen,
                 delayToTurnOffScreen, onCountdown,
                 screenStateBeforeCountdown, lastForm, saveLog, served,
                 lastBatteryLevel, deviceConfig, isAPMode>>

\* loop(), server.handleClient() with no request pending or with a GET: the
\* pages are rendered and nothing changes
deviceHandleClient ==
  /\ sketch = "part_000" /\ pc = "handleClient"
  /\ pc' = "loop"
  /\ ev' = NoEvents /\ reqs' = <<>> /\ painted' = <<>>
  /\ served' = TRUE
  /\ UNCHANGED <<sketch, envVars, inoVars, lastForm, saveLog, p0Vars>>

\* the record the two save handlers build from a form
DeviceSavedConfig(form) ==
  [ magic |-> deviceConfig.magic,
    ssid |-> strncpy(form.ssid, DEVICE_SSID_SIZE),
    password |-> strncpy(form.pass, DEVICE_PASSWORD_SIZE),
    targetIP |-> strncpy(form.ip, TARGET_IP_SIZE),
    targetPort |-> UInt16(toInt(form.port)) ]

\* a save handler: the fields are copied, saveConfig(), the confirmation is
\* sent, and after delay(1000) ESP.restart() boots the device again
devicePost ==
  /\ pc = "handleClient" /\ serverOn
  /\ \E form \in DeviceForms :
       /\ eeprom' = [DeviceSavedConfig(form) EXCEPT !.magic = CONFIG_MAGIC]
       /\ lastForm' = form
  /\ saveLog' = SaveSteps
  /\ PowerOn
  /\ pc' = "boot"
  /\ UNCHANGED sketch

\* POST /config, registered by startAPMode()
handleConfig == sketch = "part_000" /\ isAPMode /\ devicePost

\* POST /update, registered by connectWiFi() once connected
handleUpdate == sketch = "part_000" /\ ~isAPMode /\ devicePost

(***************************************************************************)
(* The device.                                                             *)
(***************************************************************************)
Init ==
  /\ sketch \in {"page-turner.ino", "part_000"}
  /\ pc = "boot"
  /\ now = 0
  /\ wifi = FALSE /\ softAP = FALSE /\ serverOn = FALSE
  /\ displayOn = FALSE
  /\ eeprom \in (IF sketch = "page-turner.ino" THEN {ErasedConfig}
                                               ELSE FirstRecords)
  /\ config = DefaultConfig
  /\ lastDisplayedText = NoText
  /\ lastActiveTime = 0
  /\ pwrBtnpressStartTime = 0
  /\ lastRemainingSeconds = -1
  /\ lastBatteryLevel = -1
  /\ turnOnScreen = TRUE
  /\ delayToTurnOffScreen = FALSE
  /\ onCountdown = FALSE
  /\ screenStateBeforeCountdown = TRUE
  /\ ev = NoEvents /\ reqs = <<>> /\ painted = <<>>
  /\ served = FALSE
  /\ lastForm = <<>> /\ saveLog = <<>>
  /\ deviceConfig = ZeroDeviceConfig
  /\ screenEnabled = FALSE
  /\ isAPMode = FALSE
  /\ lastActivityTime = 0
  /\ lastPress = 0
  /\ lastScreenUpdate = 0
  /\ lastSSID = <<>> /\ lastIP = NoIP /\ lastTarget = <<>>
  /\ ticks = 0

Next ==
  \/ setup
  \/ update
  \/ handleScreenSwitch
  \/ buttonA
  \/ buttonB
  \/ handlePWRBtnEvent
  \/ handleAutoShutdown
  \/ handleRoot
  \/ handleSave
  \/ deviceSetup
  \/ deviceLoop
  \/ deviceHandleClient
  \/ handleConfig
  \/ handleUpdate

Spec == Init /\ [][Next]_vars

\* the long-idle runs: page-turner.ino with a record saved earlier or with
\* erased storage, left alone by the web client
InitLong ==
  /\ sketch = "page-turner.ino"
  /\ pc = "boot"
  /\ now = 0
  /\ wifi = FALSE /\ softAP = FALSE /\ serverOn = FALSE
  /\ displayOn = FALSE
  /\ \/ /\ lastForm \in LongIdleForms
        /\ eeprom = SavedConfig(ErasedConfig, lastForm)
        /\ saveLog = SaveSteps
     \/ lastForm = <<>> /\ eeprom = ErasedConfig /\ saveLog = <<>>
  /\ config = DefaultConfig
  /\ lastDisplayedText = NoText
  /\ lastActiveTime = 0
  /\ pwrBtnpressStartTime = 0
  /\ lastRemainingSeconds = -1
  /\ lastBatteryLevel = -1
  /\ turnOnScreen = TRUE
  /\ delayToTurnOffScreen = FALSE
  /\ onCountdown = FALSE
  /\ screenStateBeforeCountdown = TRUE
  /\ ev = NoEvents /\ reqs = <<>> /\ painted = <<>>
  /\ served = FALSE
  /\ deviceConfig = ZeroDeviceConfig
  /\ screenEnabled = FALSE
  /\ isAPMode = FALSE
  /\ lastActivityTime = 0
  /\ lastPress = 0
  /\ lastScreenUpdate = 0
  /\ lastSSID = <<>> /\ lastIP = NoIP /\ lastTarget = <<>>
  /\ ticks = 0

NextLong ==
  \/ setup
  \/ updateLong
  \/ handleScreenSwitch
  \/ buttonA
  \/ buttonB
  \/ handlePWRBtnEvent
  \/ handleAutoShutdown
  \/ handleRoot

SpecLong == InitLong /\ [][NextLong]_vars

(***************************************************************************)
(* The idle timer.                                                         *)
(***************************************************************************)
\* the idle time handleAutoShutdown sees, in whole seconds
IdleSeconds == (now - lastActiveTime) \div MS_PER_SECOND

\* part_000: the millis() an iteration of loop() starts with
DeviceCurrentTime == IF pc' = "off" THEN now' ELSE ev'.at

\* part_000: the idle time that iteration sees, in ms
DeviceIdle == DeviceCurrentTime - lastActivityTime

\* the step of loop() that runs handleAutoShutdown
AutoShutdownStep ==
  sketch = "page-turner.ino" /\ pc = "handleAutoShutdown" /\ pc' # pc

\* the countdown texts among the texts painted
IsCountdownText(text) == text[1] = "countdown"

CountdownTexts(texts) == SelectSeq(texts, IsCountdownText)

\* a countdown text was painted in the step
CountdownPainted ==
  /\ painted' # painted
  /\ painted'[Len(painted')][1] = "countdown"

\* C1: in page-turner.ino with the countdown prompt enabled, an iteration
\* that starts in Countdown and sees button or power-key activity ends in
\* Active (onCountdown false) with turnOnScreen equal to the value it had
\* when the Countdown was entered.
C1_ActivityEndsCountdown ==
  [][ (/\ AutoShutdownStep
       /\ IsSet(config.shutdownCountdownScreen)
       /\ onCountdown
       /\ ev.acted)
      => (/\ ~onCountdown'
          /\ turnOnScreen' = screenStateBeforeCountdown) ]_vars

\* C2: within the countdown window (autoShutdownTime - countdownTime <= d <
\* autoShutdownTime, d the idle time in whole seconds) and with the prompt
\* enabled, the display shows the countdown text of autoShutdownTime - d,
\* which is also the value kept in lastRemainingSeconds, and the text is
\* painted in an iteration only if that value differs from
\* lastRemainingSeconds.  In part_000 the window is 590 <= d < 600 and the
\* value is 600 - d.
C2_RemainingSecondsShown ==
  [][ /\ (/\ AutoShutdownStep
          /\ IsSet(config.shutdownCountdownScreen)
          /\ config.autoShutdownTime - config.countdownTime <= IdleSeconds
          /\ IdleSeconds < config.autoShutdownTime)
         => LET shown == config.autoShutdownTime - IdleSeconds
            IN  /\ lastDisplayedText' = CountdownText(shown)
                /\ lastRemainingSeconds' = shown
                /\ painted' # painted
                     => /\ shown # lastRemainingSeconds
                        /\ painted' = Append(painted, CountdownText(shown))
      /\ (/\ sketch = "part_000" /\ pc = "loop" /\ pc' = "handleClient"
          /\ ENABLE_SCREEN_PROMPT
          /\ DeviceIdle \div MS_PER_SECOND
               >= (SHUTDOWN_TIMEOUT - COUNTDOWN_LENGTH) \div MS_PER_SECOND
          /\ DeviceIdle \div MS_PER_SECOND
               < SHUTDOWN_TIMEOUT \div MS_PER_SECOND)
         => LET shown == (SHUTDOWN_TIMEOUT \div MS_PER_SECOND)
                           - (DeviceIdle \div MS_PER_SECOND)
            IN  /\ lastRemainingSeconds' \in {shown, -1}
                /\ lastRemainingSeconds' = -1 => ev'.pressed # {}
                /\ CountdownTexts(painted') # <<>>
                     => /\ shown # lastRemainingSeconds
                        /\ CountdownTexts(painted')
                             = <<CountdownText(shown)>> ]_vars

\* C3: while d < autoShutdownTime - countdownTime the device stays Active:
\* the tick neither powers off nor runs the countdown, onCountdown is false
\* after it and no countdown text is painted.
C3_ActiveBeforeWindow ==
  [][ /\ (/\ AutoShutdownStep
          /\ IdleSeconds < config.autoShutdownTime - config.countdownTime)
         => (pc' # "off" /\ ~onCountdown' /\ ~CountdownPainted)
      /\ (/\ sketch = "part_000" /\ pc = "loop" /\ pc' # pc
          /\ DeviceIdle \div MS_PER_SECOND
               < (SHUTDOWN_TIMEOUT - COUNTDOWN_LENGTH) \div MS_PER_SECOND)
         => (pc' # "off" /\ CountdownTexts(painted') = <<>>) ]_vars

\* C4: a tick powers off exactly when the idle time is at least
\* autoShutdownTime, and after power-off nothing happens any more.
C4_PowerOffWhenDue ==
  [][ /\ AutoShutdownStep
         => (pc' = "off" <=> IdleSeconds >= config.autoShutdownTime)
      /\ (sketch = "part_000" /\ pc = "loop" /\ pc' # pc)
         => (pc' = "off" <=> DeviceIdle >= SHUTDOWN_TIMEOUT)
      /\ pc = "off" => UNCHANGED vars ]_vars

\* C10: with countdownTime >= autoShutdownTime the countdown window starts
\* at idle time 0: with the prompt enabled the device is in Countdown for
\* every idle time d with 0 <= d < autoShutdownTime.
C10_WindowClamped ==
  [][ (/\ AutoShutdownStep
       /\ IsSet(config.shutdownCountdownScreen)
       /\ config.countdownTime >= config.autoShutdownTime
       /\ 0 <= IdleSeconds /\ IdleSeconds < config.autoShutdownTime)
      => (pc' # "off" /\ onCountdown') ]_vars

(***************************************************************************)
(* Buttons and requests.                                                   *)
(***************************************************************************)
\* a step of page-turner.ino in which a normal button reports a click or a
\* hold while the station is connected
NormalButtonEvent ==
  /\ sketch = "page-turner.ino"
  /\ pc \in {"handleNormalBtnEventA", "handleNormalBtnEventB"} /\ pc' # pc
  /\ wifi /\ ev'.event # "none"

\* a step of page-turner.ino in which the power key reports a click
PowerKeyClick ==
  /\ sketch = "page-turner.ino"
  /\ pc = "handlePWRBtnEvent" /\ pc' # pc
  /\ ev'.event = "clicked"

\* an iteration of part_000 in which the buttons in which are found pressed
Pressed(which) ==
  /\ sketch = "part_000" /\ pc = "loop" /\ pc' = "handleClient"
  /\ ev'.pressed \cap which # {}

\* C5: every button event and every power-key click sets the time of the
\* last activity to the current time and lastRemainingSeconds to -1.  (A
\* click or hold of A or B counts in page-turner.ino when the station is
\* connected; in part_000 the power key is button C.)
C5_ActivityResetsTimer ==
  [][ /\ NormalButtonEvent \/ PowerKeyClick
         => (lastActiveTime' = now /\ lastRemainingSeconds' = -1)
      /\ Pressed({"A", "B", "C"})
         => (lastActivityTime' = DeviceCurrentTime
             /\ lastRemainingSeconds' = -1) ]_vars

\* C6: in both sketches, while the station is not connected no press of
\* button A or B issues an HTTP request: a button handler of
\* page-turner.ino entered without a connection adds no request, and an
\* iteration of part_000's loop() that begins and ends without a
\* connection has issued none.
C6_NoRequestOffline ==
  [][ /\ (/\ sketch = "page-turner.ino"
          /\ pc \in {"handleNormalBtnEventA", "handleNormalBtnEventB"}
          /\ ~wifi)
         => reqs' = reqs
      /\ (/\ sketch = "part_000" /\ pc = "loop" /\ pc' = "handleClient"
          /\ ~wifi /\ ~wifi')
         => reqs' = <<>> ]_vars

\* "/koreader/event/"
EventPrefix ==
  <<47, 107, 111, 114, 101, 97, 100, 101, 114, 47, 101, 118, 101, 110, 116,
    47>>

\* the documented suffix of each logical action
DocumentedSuffix(action) ==
  CASE action = 0 ->  \* "GotoViewRel/-1"
         <<71, 111, 116, 111, 86, 105, 101, 119, 82, 101, 108, 47, 45, 49>>
    [] action = 1 ->  \* "GotoViewRel/1"
         <<71, 111, 116, 111, 86, 105, 101, 119, 82, 101, 108, 47, 49>>
    [] action = 2 ->  \* "FullRefresh"
         <<70, 117, 108, 108, 82, 101, 102, 114, 101, 115, 104>>
    [] action = 3 ->  \* "ToggleFrontlight"
         <<84, 111, 103, 103, 108, 101, 70, 114, 111, 110, 116, 108, 105,
           103, 104, 116>>

\* http://h:p/koreader/event/<suffix>
DocumentedUrl(h, p, action) ==
  HttpScheme \o h \o <<58>> \o IntToStr(p) \o EventPrefix
    \o DocumentedSuffix(action)

\* the action configured for the event a normal button reported
ConfiguredAction ==
  IF pc = "handleNormalBtnEventA"
  THEN (IF ev'.event = "clicked" THEN config.aBtnClickAction
                                 ELSE config.aBtnHoldAction)
  ELSE (IF ev'.event = "clicked" THEN config.bBtnClickAction
                                 ELSE config.bBtnHoldAction)

\* C7: for every configured host h (the text held in config.koReaderIP)
\* and port p, the request of each logical action 0..3 is exactly
\* http://h:p/koreader/event/<suffix> with the documented suffix of the
\* action.
C7_RequestUrl ==
  [][ (NormalButtonEvent /\ ConfiguredAction \in 0..3)
      => reqs' = Append(reqs, DocumentedUrl(CStr(config.koReaderIP),
                                            config.koReaderPort,
                                            ConfiguredAction)) ]_vars

(***************************************************************************)
(* The stored configuration.                                               *)
(***************************************************************************)
\* C8: at boot, storage that holds no valid record (never written, or with
\* a marker other than the expected one) leaves the configuration in memory
\* equal to the defaults and the defaults in storage, in each sketch.
C8_DefaultsOnFirstBoot ==
  [][ /\ (sketch = "page-turner.ino" /\ pc = "boot" /\ pc' # pc
          /\ eeprom = ErasedConfig)
         => (config' = DefaultConfig /\ eeprom' = DefaultConfig)
      /\ (sketch = "part_000" /\ pc = "boot" /\ pc' # pc
          /\ eeprom.magic # CONFIG_MAGIC)
         => (deviceConfig' = DefaultDeviceConfig
             /\ eeprom' = DefaultDeviceConfig) ]_vars

\* a submitted text that is not a number: empty, or with a character that
\* is no digit
NonNumeric(text) == text = <<>> \/ \E i \in 1..Len(text) : ~IsDigit(text[i])

\* the decimal number a text starts with, 0 when it starts with none
RECURSIVE LeadingNumber(_, _)
LeadingNumber(text, acc) ==
  IF text = <<>> \/ ~IsDigit(Head(text)) THEN acc
  ELSE LeadingNumber(Tail(text), 10 * acc + (Head(text) - 48))

\* a save has completed: the record is stored and the device has restarted
Saved == pc = "boot" /\ lastForm # <<>>

\* C9 as stated: a save with a non-numeric koReaderPort completes and stores
\* port 0, and likewise autoShutdownTime and countdownTime.
C9_NonNumericStoresZero ==
  Saved =>
    IF sketch = "page-turner.ino"
    THEN /\ NonNumeric(lastForm.koReaderPort) => eeprom.koReaderPort = 0
         /\ NonNumeric(lastForm.autoShutdownTime)
              => eeprom.autoShutdownTime = 0
         /\ NonNumeric(lastForm.countdownTime) => eeprom.countdownTime = 0
    ELSE NonNumeric(lastForm.port) => eeprom.targetPort = 0

\* C9, amended: a save always completes; a numeric field whose text does
\* not start with a digit is stored as 0, and one that starts with digits
\* is stored as the number those digits spell, whatever follows them
\* ("80abc" is stored as 80).
C9_LeadingNumberStored ==
  Saved =>
    IF sketch = "page-turner.ino"
    THEN /\ eeprom.koReaderPort = LeadingNumber(lastForm.koReaderPort, 0)
         /\ eeprom.autoShutdownTime
              = LeadingNumber(lastForm.autoShutdownTime, 0)
         /\ eeprom.countdownTime = LeadingNumber(lastForm.countdownTime, 0)
    ELSE eeprom.targetPort = LeadingNumber(lastForm.port, 0)

\* C9 happens: the form with port, autoShutdownTime and countdownTime "abc"
\* was saved and the stored fields are 0
C9_AbcSaved ==
  /\ Saved /\ sketch = "page-turner.ino"
  /\ lastForm.koReaderPort = <<97, 98, 99>>
  /\ lastForm.autoShutdownTime = <<97, 98, 99>>
  /\ eeprom.koReaderPort = 0
  /\ eeprom.autoShutdownTime = 0
  /\ eeprom.countdownTime = 0

(***************************************************************************)
(* The power key and the screen.                                           *)
(***************************************************************************)
\* the stored times are as the data model wants them
WellFormedTimes ==
  /\ 1 <= config.countdownTime
  /\ config.countdownTime < config.autoShutdownTime
  /\ config.autoShutdownTime <= INT_MAX \div MS_PER_SECOND

\* the step of handleAutoShutdown in an iteration whose power key clicked
AfterPowerKeyClick == AutoShutdownStep /\ ev.event = "clicked"

\* C11 as stated (for records with well-formed times): in the iteration of a
\* power-key click turnOnScreen ends negated and delayToTurnOffScreen
\* false, in Active and in Countdown.
C11_ClickTogglesEverywhere ==
  [][ /\ (PowerKeyClick /\ WellFormedTimes)
         => (turnOnScreen' = ~turnOnScreen /\ ~delayToTurnOffScreen')
      /\ (AfterPowerKeyClick /\ WellFormedTimes)
         => (turnOnScreen' = turnOnScreen /\ ~delayToTurnOffScreen') ]_vars

\* C11, amended: handlePWRBtnEvent negates turnOnScreen and clears
\* delayToTurnOffScreen on a click, and delayToTurnOffScreen is still false
\* at the end of the iteration.  The negated turnOnScreen lasts to the end
\* of the iteration when the device was and stays Active; a click that ends
\* a Countdown leaves turnOnScreen = screenStateBeforeCountdown, and while
\* handleAutoShutdown keeps the device in Countdown turnOnScreen is true.
C11_ClickTogglesInActive ==
  [][ /\ PowerKeyClick
         => (turnOnScreen' = ~turnOnScreen /\ ~delayToTurnOffScreen')
      /\ AfterPowerKeyClick
         => /\ ~delayToTurnOffScreen'
            /\ (~onCountdown /\ ~onCountdown') => turnOnScreen' = turnOnScreen
            /\ (onCountdown /\ ~onCountdown')
                 => turnOnScreen' = screenStateBeforeCountdown
            /\ (onCountdown' /\ pc' # "off") => turnOnScreen' ]_vars

\* C11 happens: a power-key click has ended a Countdown that was entered
\* with the screen on; turnOnScreen, true during the Countdown, is true
\* again (restored, not negated) and the countdown text is still the last
\* one shown
C11_ClickEndedCountdown ==
  /\ sketch = "page-turner.ino" /\ pc = "handleClient"
  /\ WellFormedTimes
  /\ ev.event = "clicked"
  /\ ~onCountdown
  /\ lastDisplayedText[1] = "countdown"
  /\ screenStateBeforeCountdown
  /\ turnOnScreen
  /\ ~delayToTurnOffScreen

(***************************************************************************)
(* The save handlers.                                                      *)
(***************************************************************************)
\* a char array of a record holds the submitted text, cut to its capacity
\* and padded with zero bytes
HoldsText(field, text) ==
  \A i \in 1..Len(field) :
    field[i] = IF i <= Len(text) THEN text[i] ELSE 0

\* the stored record holds every field of the form
HoldsForm(record, form) ==
  IF sketch = "page-turner.ino"
  THEN /\ HoldsText(record.ssid, form.ssid)
       /\ HoldsText(record.password, form.password)
       /\ HoldsText(record.koReaderIP, form.koReaderIP)
       /\ record.koReaderPort = LeadingNumber(form.koReaderPort, 0)
       /\ record.aBtnClickAction = LeadingNumber(form.aClick, 0)
       /\ record.aBtnHoldAction = LeadingNumber(form.aLong, 0)
       /\ record.bBtnClickAction = LeadingNumber(form.bClick, 0)
       /\ record.bBtnHoldAction = LeadingNumber(form.bLong, 0)
       /\ record.keepScreenOn = BoolByte(form.keepScreenOn)
       /\ record.beepOnPress = BoolByte(form.beepOnPress)
       /\ record.autoShutdownTime = LeadingNumber(form.autoShutdownTime, 0)
       /\ record.shutdownCountdownScreen = BoolByte(form.shutdownCountdownScreen)
       /\ record.shutdownCountdownBeep = BoolByte(form.shutdownCountdownBeep)
       /\ record.countdownTime = LeadingNumber(form.countdownTime, 0)
  ELSE /\ HoldsText(record.ssid, form.ssid)
       /\ HoldsText(record.password, form.pass)
       /\ HoldsText(record.targetIP, form.ip)
       /\ record.targetPort = LeadingNumber(form.port, 0)
       /\ record.magic = CONFIG_MAGIC

\* the device has just been started: the clock is at 0 and nothing runs yet
Restarted ==
  /\ pc = "boot" /\ now = 0
  /\ ~wifi /\ ~softAP /\ ~serverOn
  /\ ev = NoEvents /\ reqs = <<>>

\* the place of a step in a log, 0 if it is not there
Place(log, step) ==
  IF \E i \in 1..Len(log) : log[i] = step
  THEN CHOOSE i \in 1..Len(log) : log[i] = step
  ELSE 0

RecordInMemory == IF sketch = "page-turner.ino" THEN config ELSE deviceConfig

\* a step of setup(), or a save with its restart
BootOrSave == pc = "boot" \/ (pc = "handleClient" /\ pc' = "boot")

\* C13: the record in memory changes only in boot-time loading and in the
\* save handler, and storage changes with it: whenever loop() is running
\* (at every iteration boundary, after any boots, saves, button events and
\* ticks) the record in memory equals the record in storage.
C13_RecordPersisted ==
  [][ /\ pc' # "boot" => RecordInMemory' = eeprom'
      /\ (RecordInMemory' # RecordInMemory \/ eeprom' # eeprom)
           => BootOrSave ]_vars

\* C13 happens: after a save and the boot that followed it, loop() has run
\* for a while with button activity, and memory and storage hold the saved
\* record
C13_SavedRecordInUse ==
  /\ sketch = "page-turner.ino" /\ pc = "handleClient"
  /\ lastForm = BaseForm
  /\ ev.acted
  /\ now > lastActiveTime
  /\ config = eeprom
  /\ config.koReaderPort = 8080

\* a char array of a record holds a terminated string that is a prefix of
\* the submitted text
TerminatedPrefix(field, text) ==
  \E k \in 0..(Len(field) - 1) :
    /\ field[k + 1] = 0
    /\ \A i \in 1..k : field[i] # 0
    /\ k <= Len(text)
    /\ SubSeq(field, 1, k) = SubSeq(text, 1, k)

\* C14: whatever the length of a submitted ssid, password or target host,
\* the stored field is a terminated string of at most capacity - 1
\* characters that is a prefix of the submitted text.
C14_StringsTerminated ==
  Saved =>
    IF sketch = "page-turner.ino"
    THEN /\ TerminatedPrefix(eeprom.ssid, lastForm.ssid)
         /\ TerminatedPrefix(eeprom.password, lastForm.password)
         /\ TerminatedPrefix(eeprom.koReaderIP, lastForm.koReaderIP)
    ELSE /\ TerminatedPrefix(eeprom.ssid, lastForm.ssid)
         /\ TerminatedPrefix(eeprom.password, lastForm.pass)
         /\ TerminatedPrefix(eeprom.targetIP, lastForm.ip)

\* C15: whatever form was saved, the stored record satisfies the data
\* model: autoShutdownTime >= 0, 1 <= countdownTime < autoShutdownTime,
\* port in 1..65535, every button action in 0..3.
C15_StoredRecordValid ==
  (sketch = "page-turner.ino" /\ Saved) =>
    /\ eeprom.autoShutdownTime >= 0
    /\ eeprom.countdownTime >= 1
    /\ eeprom.countdownTime < eeprom.autoShutdownTime
    /\ eeprom.koReaderPort \in 1..65535
    /\ eeprom.aBtnClickAction \in 0..3
    /\ eeprom.aBtnHoldAction \in 0..3
    /\ eeprom.bBtnClickAction \in 0..3
    /\ eeprom.bBtnHoldAction \in 0..3

(***************************************************************************)
(* The screen during long idle times.                                      *)
(***************************************************************************)
\* the step of loop() that runs handleScreenSwitch
ScreenSwitchStep ==
  sketch = "page-turner.ino" /\ pc = "handleScreenSwitch" /\ pc' # pc

\* C16: while the device is in Countdown with the prompt enabled, every
\* iteration of loop() wakes the display and none puts it to sleep, also
\* when keepScreenOn is false and the delayed screen-off becomes due in the
\* countdown window.
C16_AwakeInCountdown ==
  [][ (ScreenSwitchStep /\ onCountdown /\ IsSet(config.shutdownCountdownScreen))
      => displayOn' ]_vars

\* the delayed screen-off is due in the iteration
DelayedOffDue ==
  /\ delayToTurnOffScreen
  /\ ~IsSet(config.keepScreenOn)
  /\ now - lastActiveTime > 5000

\* C20: with keepScreenOn false turnOnScreen is set to false the first time
\* the idle time exceeds 5 s, and delayToTurnOffScreen is cleared with it
\* and never set again after boot; with keepScreenOn true it is never
\* pending; a power-key click clears it; and the 5 s count from the last
\* activity.
C20_DelayedScreenOff ==
  [][ /\ ScreenSwitchStep
         => IF DelayedOffDue
            THEN ~turnOnScreen' /\ ~delayToTurnOffScreen'
            ELSE /\ turnOnScreen' = turnOnScreen
                 /\ delayToTurnOffScreen' = delayToTurnOffScreen
      /\ (pc # "boot" /\ delayToTurnOffScreen') => delayToTurnOffScreen
      /\ (pc' # "boot" /\ IsSet(config'.keepScreenOn)) => ~delayToTurnOffScreen'
      /\ (pc = "boot" /\ pc' # pc /\ ~IsSet(config'.keepScreenOn))
           => delayToTurnOffScreen'
      /\ PowerKeyClick => ~delayToTurnOffScreen' ]_vars

(***************************************************************************)
(* Provisioning at boot.                                                   *)
(***************************************************************************)
\* the step that runs setup() to its end
BootStep == pc = "boot" /\ pc' # "boot"

\* the longest time setup() of the sketch takes, in ms
LongestBoot ==
  IF sketch = "page-turner.ino"
  THEN WIFI_WAIT
  ELSE BOOT_DELAY + WIFI_WAIT + AP_DELAY + SCREEN_TIMEOUT

\* C17: setup() always ends, after a wait for the connection of at most
\* 10 s; it ends with the station connected and no access point, or with
\* the access point started and no connection, and in both cases with the
\* web server started before the first iteration of loop().
C17_ProvisioningEnds ==
  [][ /\ pc = "boot" => ENABLED (setup \/ deviceSetup)
      /\ BootStep
         => /\ now = 0 /\ ~softAP /\ ~serverOn
            /\ now' <= LongestBoot
            /\ softAP' = ~wifi'
            /\ serverOn'
            /\ sketch = "part_000" => isAPMode' = softAP'
      /\ (~BootStep /\ pc' # "boot")
         => /\ softAP' = softAP
            /\ serverOn' = serverOn
            /\ isAPMode' = isAPMode ]_vars

\* C17 happens: page-turner.ino waited the whole 10 s without a connection
\* and is about to run its first loop iteration, access point and server up
C17_AccessPointAfterWait ==
  /\ sketch = "page-turner.ino" /\ pc = "update"
  /\ now = WIFI_WAIT /\ lastActiveTime = now
  /\ ~wifi /\ softAP /\ serverOn

(***************************************************************************)
(* The dispatch of the normal buttons.                                     *)
(***************************************************************************)
\* a step of page-turner.ino that handles button A or button B
NormalButtonStep ==
  /\ sketch = "page-turner.ino"
  /\ pc \in {"handleNormalBtnEventA", "handleNormalBtnEventB"} /\ pc' # pc

\* text ends with tail
EndsWith(text, tail) ==
  /\ Len(tail) <= Len(text)
  /\ SubSeq(text, Len(text) - Len(tail) + 1, Len(text)) = tail

\* the step makes one call of the Action Sender with the action: one
\* request more, for the documented path of a known action (what the URL
\* names as host and port is C7), and nothing for any other number
RequestsOf(action) ==
  IF action \in 0..3
  THEN /\ Len(reqs') = Len(reqs) + 1
       /\ SubSeq(reqs', 1, Len(reqs)) = reqs
       /\ EndsWith(reqs'[Len(reqs')],
                   EventPrefix \o DocumentedSuffix(action))
  ELSE reqs' = reqs

PowerKeyStep ==
  sketch = "page-turner.ino" /\ pc = "handlePWRBtnEvent" /\ pc' # pc

\* the pin was found released in the step: no press start is on record
\* after it (a pressed pin leaves one, millis() being past 0)
Released == pwrBtnpressStartTime' = 0

\* C19: isPWRBtnClicked reports a click in a step iff the pin is released in
\* it, a press start was on record and the key was held for less than
\* 500 ms; never while the key is held and never after 500 ms or more, which
\* leaves the time of the last activity and turnOnScreen as they were; a
\* pressed pin records the time of the first sample only; every release
\* clears the record, so that a press is reported at most once.
C19_ClickOnShortRelease ==
  [][ /\ PowerKeyStep
         => /\ ev'.event = "clicked"
                 <=> /\ Released
                     /\ pwrBtnpressStartTime # 0
                     /\ now - pwrBtnpressStartTime < 500
            /\ ~Released
                 => pwrBtnpressStartTime' =
                      IF pwrBtnpressStartTime = 0 THEN now
                                                  ELSE pwrBtnpressStartTime
            /\ ev'.event # "clicked"
                 => /\ lastActiveTime' = lastActiveTime
                    /\ turnOnScreen' = turnOnScreen
      /\ (~PowerKeyStep /\ pc' # "boot")
         => pwrBtnpressStartTime' = pwrBtnpressStartTime ]_vars

\* C19 happens: the key was released within 500 ms of the press; the click
\* was reported, the record is cleared and the screen flag toggled to off
C19_ShortPressReported ==
  /\ sketch = "page-turner.ino" /\ pc = "handleAutoShutdown"
  /\ ev.event = "clicked"
  /\ pwrBtnpressStartTime = 0
  /\ lastActiveTime = now
  /\ ~turnOnScreen

(***************************************************************************)
(* Reconfiguration after a save.                                           *)
(***************************************************************************)
\* C21: for every record the save handler of page-turner.ino can store, an
\* autoShutdownTime of 0 included, the loop that follows the restart runs
\* server.handleClient() at least once before the device is powered off.
C21_ServedBeforePowerOff ==
  (sketch = "page-turner.ino" /\ pc = "off" /\ lastForm # << >>) => served

(***************************************************************************)
(* The thresholds of the auto shutdown.                                    *)
(***************************************************************************)
\* C22: for non-negative autoShutdownTime and countdownTime the threshold
\* handleAutoShutdown compares the idle time with is autoShutdownTime * 1000
\* exactly (its quotient by 1000 is autoShutdownTime again), so that the
\* device is never powered off at an idle time below autoShutdownTime
\* seconds.
C22_NoEarlyPowerOff ==
  [][ (/\ AutoShutdownStep
       /\ config.autoShutdownTime >= 0
       /\ config.countdownTime >= 0)
      => /\ UDiv(ShutdownThreshold(config), MS_PER_SECOND)
              = config.autoShutdownTime
         /\ pc' = "off" => IdleSeconds >= config.autoShutdownTime ]_vars

(***************************************************************************)
(* Actions that are none of 0..3.                                          *)
(***************************************************************************)
\* C23: a click or hold of a normal button whose configured action is none
\* of 0, 1, 2, 3 issues no HTTP request and takes no time, and still counts
\* as activity: the tone of a button press sounds iff beepOnPress is set,
\* lastActiveTime is the current time and lastRemainingSeconds is -1.
C23_UnknownActionIsActivity ==
  [][ (NormalButtonEvent /\ ConfiguredAction \notin 0..3)
      => /\ reqs' = reqs
         /\ now' = now
         /\ ev'.beeped = IsSet(config.beepOnPress)
         /\ lastActiveTime' = now
         /\ lastRemainingSeconds' = -1 ]_vars

\* C23 happens: during the countdown button A, whose Click action was saved
\* as 7, has been clicked: nothing was requested, the tone has sounded and
\* the idle timer is reset
C23_ClickWithAction7 ==
  /\ sketch = "page-turner.ino" /\ pc = "handleNormalBtnEventB"
  /\ wifi /\ ev.event = "clicked"
  /\ config.aBtnClickAction = 7 /\ IsSet(config.beepOnPress)
  /\ onCountdown /\ lastDisplayedText[1] = "countdown"
  /\ reqs = << >>
  /\ ev.beeped
  /\ lastActiveTime = now /\ lastRemainingSeconds = -1
====
